---- MODULE Spec2Model ----
(***************************************************************************)
(* Model of the JsProver contract (src/lib.rs).                            *)
(*                                                                         *)
(* The stored state is the pair (owner, config).  The host serialises the  *)
(* calls of one instance, so every message is one atomic action.  To make  *)
(* the behaviour inside a call observable, each action records the call    *)
(* (message, caller, arguments), the stored state at entry, the value      *)
(* returned, and the sequence of steps (access check and host calls) the   *)
(* message performed, in program order.                                    *)
(*                                                                         *)
(* Host capabilities are modelled abstractly:                              *)
(*   - Blake2x256 is an injective encoding of the code bytes into the hash *)
(*     space (collision freedom is assumed, as for the real function);     *)
(*   - a derived key is the pair (contract, salt); a signature names the   *)
(*     key, the exact message and the signer's randomness; a public key    *)
(*     names the key it is the public half of;                             *)
(*   - js_eval, get_driver, own_code_hash answer nondeterministically.     *)
(***************************************************************************)
EXTENDS Integers, Sequences, FiniteSets, TLC

\* TLC keeps the fields of a record in the order in which their names first
\* appear in the module.  FieldOrder makes that order the alphabetical one,
\* and every record below is written with its fields in alphabetical order, so
\* a record value is in normal form as soon as it is built.
FieldOrder ==
    [Source |-> 0, allowed_code_hashes |-> 0, args |-> 0, block_number |-> 0,
     caller |-> 0, code_hash |-> 0, codes |-> 0, config |-> 0, contract |-> 0,
     contract_address |-> 0, contract_code_hash |-> 0, detail |-> 0,
     driver |-> 0, err |-> 0, in |-> 0, js_code |-> 0, js_code_hash |-> 0,
     js_engine_code_hash |-> 0, js_result |-> 0, key |-> 0, kind |-> 0,
     message |-> 0, msg |-> 0, new_owner |-> 0, nonce |-> 0, op |-> 0,
     out |-> 0, output |-> 0, own_code_hash |-> 0, owner |-> 0, payload |-> 0,
     pubkey |-> 0, public_of |-> 0, ret |-> 0, salt |-> 0, secret |-> 0,
     self |-> 0, signature |-> 0, signer |-> 0, some |-> 0, step |-> 0,
     steps |-> 0, tag |-> 0, val |-> 0]

\* ---------------------------------------------------------------- bounds
MaxArgs == 1        \* longest args vector of run_js
MaxAllowed == 2     \* longest allowed_code_hashes vector
MaxBlock == 1       \* highest block number reached
NumAccounts == 2    \* number of calling accounts

\* ---------------------------------------------------------------- domains
SeqsUpTo(S, n) == UNION {[1..k -> S] : k \in 0..n}

Range(s) == {s[i] : i \in 1..Len(s)}

JsBytes == {1, 2}

\* The codes submitted: the one-byte strings.
JsCodes == {<<b>> : b \in JsBytes}

ArgStrings == {"a"}

ArgLists == SeqsUpTo(ArgStrings, MaxArgs)

Secrets == {"", "s1"}

AccountId == 1..NumAccounts

\* Hash values: the hash of every code in JsCodes, and 0, the hash of none.
Hash == 0..2

Public == [kind |-> "Public"]

WhiteList(s, hs) == [allowed_code_hashes |-> hs, kind |-> "WhiteList", secret |-> s]

Config == {Public} \cup {WhiteList(s, hs) : s \in Secrets, hs \in SeqsUpTo(Hash, MaxAllowed)}

\* ---------------------------------------------------------------- results
OkUnit == [tag |-> "Ok"]

Ok(v) == [tag |-> "Ok", val |-> v]

Err(e) == [err |-> e, tag |-> "Err"]

Unauthorized == Err("Unauthorized")

BadConfig == Err("BadConfig")

JsError(v) == [detail |-> <<"Invalid output: ", v>>, err |-> "JsError", tag |-> "Err"]

Panic(m) == [msg |-> m, tag |-> "Panic"]

\* ---------------------------------------------------------------- host
\* The contract instance's own address and code hash, as the host reports them.
ContractAddress == NumAccounts + 1

ContractCodeHash == 0

\* env().hash_bytes::<Blake2x256>: an injective fold of the code bytes.
RECURSIVE Blake2x256(_)
Blake2x256(bytes) ==
    IF bytes = <<>> THEN 0
    ELSE 3 * Blake2x256(SubSeq(bytes, 1, Len(bytes) - 1)) + bytes[Len(bytes)]

\* pink::ext().derive_sr25519_key(salt): a function of the instance and the salt.
derive_sr25519_key(salt) == [contract |-> ContractAddress, salt |-> salt]

\* pink::ext().get_public_key(SigType::Sr25519, key)
get_public_key(k) == [public_of |-> k]

\* pink::ext().sign(SigType::Sr25519, key, message); sr25519 signing draws
\* randomness, modelled by the nonce.
SigNonces == {0, 1}

sign(k, message, nonce) == [message |-> message, nonce |-> nonce, signer |-> k]

\* Signature verification, as done by a third party.
Verify(pk, message, sig) == sig.message = message /\ get_public_key(sig.signer) = pk

\* phat_js::JsValue, the tagged value js_eval returns.
JsValue ==
    {[tag |-> "String", val |-> s] : s \in {"o1", "o2"}}
        \cup {[tag |-> "Undefined", val |-> ""], [tag |-> "Exception", val |-> "fault"]}

None == [some |-> FALSE]

Some(v) == [some |-> TRUE, val |-> v]

\* SystemRef::get_driver("JsRuntime"): Option<AccountId>
Drivers == {None, Some(NumAccounts + 2)}

\* env().own_code_hash(): Result<Hash>
OwnCodeHashResults == {Ok(ContractCodeHash), Err("CodeNotFound")}

\* The host's answers during one call.
HostAnswers(js_result, driver, own_code_hash, nonce) ==
    [driver |-> driver, js_result |-> js_result, nonce |-> nonce,
     own_code_hash |-> own_code_hash]

\* run_js asks for the driver only after js_eval returned a string, for the
\* own code hash only after it got a driver, and signs only after it got
\* both: an answer to a call that is not made is not drawn.
Asked(host) ==
    /\ host.js_result.tag # "String" => host.driver = None
    /\ ~host.driver.some => host.own_code_hash.tag = "Err"
    /\ host.own_code_hash.tag = "Err" => host.nonce = 0

Host ==
    {host \in {HostAnswers(j, d, o, n) : j \in JsValue, d \in Drivers,
                                        o \in OwnCodeHashResults, n \in SigNonces} :
        Asked(host)}

\* One step a message performs: the step's name, its input and its result.
Step(name, in, out) == [in |-> in, out |-> out, step |-> name]

\* ---------------------------------------------------------------- state
VARIABLES owner, config, block_number, call, pre, ret, steps

vars == <<owner, config, block_number, call, pre, ret, steps>>

\* The stored contract state, as the methods see it (&self).
Self == [config |-> config, owner |-> owner]

\* ---------------------------------------------------------------- private
\* ensure_owner accepting every caller.
ensure_owner_any_caller(self, caller) == OkUnit

\* fn ensure_owner(&self) -> Result<()>
ensure_owner(self, caller) ==
    IF caller # self.owner THEN Unauthorized ELSE OkUnit

\* key salting the derivation with the stored owner.
key_owner_salt(self) == derive_sr25519_key(<<"signer", self.owner>>)

\* fn key(&self) -> Vec<u8>
key(self) == derive_sr25519_key("signer")

\* ensure_code_allowed without the membership test.
ensure_code_allowed_no_check(self, code_hash) == OkUnit

\* ensure_code_allowed treating Public as a whitelist that holds nothing.
ensure_code_allowed_public_denied(self, code_hash) ==
    IF self.config.kind # "WhiteList" THEN Unauthorized
    ELSE IF code_hash \notin Range(self.config.allowed_code_hashes) THEN Unauthorized
    ELSE OkUnit

\* fn ensure_code_allowed(&self, code_hash: &Hash) -> Result<()>
ensure_code_allowed(self, code_hash) ==
    IF self.config.kind # "WhiteList" THEN OkUnit
    ELSE IF code_hash \notin Range(self.config.allowed_code_hashes) THEN Unauthorized
    ELSE OkUnit

\* secret_data that never yields the stored secret.
secret_data_empty(self) == ""

\* fn secret_data(&self) -> String
secret_data(self) ==
    IF self.config.kind = "WhiteList" THEN self.config.secret ELSE ""

\* ---------------------------------------------------------------- payload
\* impl Serialize for Hexed<T>: "0x" followed by the hex digits of the bytes.
Hexed(t) == <<"0x", t>>

\* ProvenPayload with the code hash and the contract's code hash exchanged.
ProvenPayload_swapped(output, js_code_hash, js_engine_code_hash, contract_code_hash, contract_address, block) ==
    [block_number |-> block,
     contract_address |-> Hexed(contract_address),
     contract_code_hash |-> Hexed(js_code_hash),
     js_code_hash |-> Hexed(contract_code_hash),
     js_engine_code_hash |-> Hexed(js_engine_code_hash),
     output |-> output]

\* struct ProvenPayload, fields in declaration order.
ProvenPayload(output, js_code_hash, js_engine_code_hash, contract_code_hash, contract_address, block) ==
    [block_number |-> block,
     contract_address |-> Hexed(contract_address),
     contract_code_hash |-> Hexed(contract_code_hash),
     js_code_hash |-> Hexed(js_code_hash),
     js_engine_code_hash |-> Hexed(js_engine_code_hash),
     output |-> output]

\* pink_json::to_string(&payload): the fields as name/value pairs, in the
\* order the struct declares them.
to_string(payload) ==
    << <<"output", payload.output>>,
       <<"js_code_hash", payload.js_code_hash>>,
       <<"js_engine_code_hash", payload.js_engine_code_hash>>,
       <<"contract_code_hash", payload.contract_code_hash>>,
       <<"contract_address", payload.contract_address>>,
       <<"block_number", payload.block_number>> >>

\* struct ProvenOutput
ProvenOutput(payload, signature, pk) ==
    [payload |-> payload, pubkey |-> pk, signature |-> signature]

\* ---------------------------------------------------------------- queries
\* pubkey deriving its key from another salt than key() does.
pubkey_other_salt(self) == get_public_key(derive_sr25519_key("pubkey"))

\* pub fn pubkey(&self) -> Vec<u8>
pubkey(self) == get_public_key(key(self))

\* get_config returning the stored config as it is.
get_config_no_redact(self, caller) == self.config

\* pub fn get_config(&self) -> Config
get_config(self, caller) ==
    IF self.config.kind = "WhiteList"
    THEN IF caller # self.owner
         THEN [self.config EXCEPT !.secret = ""]
         ELSE self.config
    ELSE self.config

\* The init fragment run_js puts in front of the caller's code.
stub == "secretData = scriptArgs.pop();"

\* run_js, lines 158-179: bind the output to the code, the engine, the
\* instance and the block, serialise, sign.  done holds the steps so far.
run_js_attest(self, js_code_hash, output, block, host, done) ==
    LET k == key(self)
        s4 == Append(done, Step("derive_sr25519_key", "signer", k))
        driver == host.driver
        s5 == Append(s4, Step("get_driver", "JsRuntime", driver))
    IN  IF ~driver.some
        THEN [ret |-> Panic("Failed to get Js driver"), steps |-> s5]
        ELSE
        LET code_hash == host.own_code_hash
            s6 == Append(s5, Step("own_code_hash", <<>>, code_hash))
        IN  IF code_hash.tag # "Ok"
            THEN [ret |-> Panic("Failed to get contract code hash"), steps |-> s6]
            ELSE
            LET payload == ProvenPayload(output, js_code_hash, driver.val,
                                         code_hash.val, ContractAddress, block)
                payload_str == to_string(payload)
                signature == sign(k, payload_str, host.nonce)
                s7 == Append(s6, Step("sign", [key |-> k, message |-> payload_str],
                                      signature))
                pk == pubkey(self)
                s8 == Append(s7, Step("get_public_key", key(self), pk))
            IN  [ret |-> Ok(ProvenOutput(payload_str, signature, pk)), steps |-> s8]

\* run_js_execute taking the text of any value but undefined as the output.
run_js_execute_any_value(self, js_code, js_code_hash, args, block, host, done) ==
    LET args2 == Append(args, secret_data(self))
        codes == <<[Source |-> stub], [Source |-> js_code]>>
        output == host.js_result
        s3 == Append(done, Step("js_eval", [args |-> args2, codes |-> codes], output))
    IN  IF output.tag = "Undefined" THEN [ret |-> JsError(output), steps |-> s3]
        ELSE run_js_attest(self, js_code_hash, output.val, block, host, s3)

\* run_js_execute putting the secret in front of the caller's arguments.
run_js_execute_secret_first(self, js_code, js_code_hash, args, block, host, done) ==
    LET args2 == <<secret_data(self)>> \o args
        codes == <<[Source |-> stub], [Source |-> js_code]>>
        output == host.js_result
        s3 == Append(done, Step("js_eval", [args |-> args2, codes |-> codes], output))
    IN  IF output.tag # "String" THEN [ret |-> JsError(output), steps |-> s3]
        ELSE run_js_attest(self, js_code_hash, output.val, block, host, s3)

\* run_js, lines 144-157: push the secret, evaluate [stub, js_code], accept
\* only a string value; then attest.
run_js_execute(self, js_code, js_code_hash, args, block, host, done) ==
    LET args2 == Append(args, secret_data(self))
        codes == <<[Source |-> stub], [Source |-> js_code]>>
        output == host.js_result
        s3 == Append(done, Step("js_eval", [args |-> args2, codes |-> codes], output))
    IN  IF output.tag # "String" THEN [ret |-> JsError(output), steps |-> s3]
        ELSE run_js_attest(self, js_code_hash, output.val, block, host, s3)

\* run_js evaluating the code before it consults the whitelist.
run_js_eval_first(self, js_code, args, block, host) ==
    LET js_code_hash == Blake2x256(js_code)
        s1 == <<Step("hash_bytes", js_code, js_code_hash)>>
        executed == run_js_execute(self, js_code, js_code_hash, args, block, host, s1)
        allowed == ensure_code_allowed(self, js_code_hash)
        s2 == Append(executed.steps, Step("ensure_code_allowed", js_code_hash, allowed))
    IN  IF allowed.tag = "Err" THEN [ret |-> allowed, steps |-> s2]
        ELSE [ret |-> executed.ret, steps |-> s2]

\* pub fn run_js(&self, js_code: String, args: Vec<String>) -> Result<ProvenOutput>
\* Returns the value returned and the steps performed, in program order.
\* block is env().block_number(); host holds the host's answers.
run_js(self, js_code, args, block, host) ==
    LET js_code_hash == Blake2x256(js_code)
        s1 == <<Step("hash_bytes", js_code, js_code_hash)>>
        allowed == ensure_code_allowed(self, js_code_hash)
        s2 == Append(s1, Step("ensure_code_allowed", js_code_hash, allowed))
    IN  IF allowed.tag = "Err" THEN [ret |-> allowed, steps |-> s2]
        ELSE run_js_execute(self, js_code, js_code_hash, args, block, host, s2)

\* ---------------------------------------------------------------- owner ops
\* Each returns the value returned and the stored state after the call.

\* transfer_ownership reporting success without assigning the new owner.
transfer_ownership_keeps_owner(self, caller, new_owner) ==
    LET e == ensure_owner(self, caller)
    IN  IF e.tag = "Err" THEN [ret |-> e, self |-> self]
        ELSE [ret |-> OkUnit, self |-> self]

\* pub fn transfer_ownership(&mut self, new_owner: AccountId) -> Result<()>
transfer_ownership(self, caller, new_owner) ==
    LET e == ensure_owner(self, caller)
    IN  IF e.tag = "Err" THEN [ret |-> e, self |-> self]
        ELSE [ret |-> OkUnit, self |-> [self EXCEPT !.owner = new_owner]]

\* update_config refusing, like update_secret, when the config is Public.
update_config_needs_whitelist(self, caller, cfg) ==
    LET e == ensure_owner(self, caller)
    IN  IF e.tag = "Err" THEN [ret |-> e, self |-> self]
        ELSE IF self.config.kind = "WhiteList"
        THEN [ret |-> OkUnit, self |-> [self EXCEPT !.config = cfg]]
        ELSE [ret |-> BadConfig, self |-> self]

\* update_config assigning before the ownership check.
update_config_write_first(self, caller, cfg) ==
    LET e == ensure_owner(self, caller)
        written == [self EXCEPT !.config = cfg]
    IN  IF e.tag = "Err" THEN [ret |-> e, self |-> written]
        ELSE [ret |-> OkUnit, self |-> written]

\* pub fn update_config(&mut self, config: Config) -> Result<()>
update_config(self, caller, cfg) ==
    LET e == ensure_owner(self, caller)
    IN  IF e.tag = "Err" THEN [ret |-> e, self |-> self]
        ELSE [ret |-> OkUnit, self |-> [self EXCEPT !.config = cfg]]

\* update_secret storing a fresh whitelist that holds the new secret only.
update_secret_resets_list(self, caller, secret) ==
    LET e == ensure_owner(self, caller)
    IN  IF e.tag = "Err" THEN [ret |-> e, self |-> self]
        ELSE IF self.config.kind = "WhiteList"
        THEN [ret |-> OkUnit, self |-> [self EXCEPT !.config = WhiteList(secret, <<>>)]]
        ELSE [ret |-> BadConfig, self |-> self]

\* update_secret creating a whitelist when the config is Public.
update_secret_creates(self, caller, secret) ==
    LET e == ensure_owner(self, caller)
    IN  IF e.tag = "Err" THEN [ret |-> e, self |-> self]
        ELSE IF self.config.kind = "WhiteList"
        THEN [ret |-> OkUnit, self |-> [self EXCEPT !.config.secret = secret]]
        ELSE [ret |-> OkUnit, self |-> [self EXCEPT !.config = WhiteList(secret, <<>>)]]

\* pub fn update_secret(&mut self, secret: String) -> Result<()>
update_secret(self, caller, secret) ==
    LET e == ensure_owner(self, caller)
    IN  IF e.tag = "Err" THEN [ret |-> e, self |-> self]
        ELSE IF self.config.kind = "WhiteList"
        THEN [ret |-> OkUnit, self |-> [self EXCEPT !.config.secret = secret]]
        ELSE [ret |-> BadConfig, self |-> self]

\* allow_code_hash storing the new hash in place of the vector.
allow_code_hash_replaces(self, caller, code_hash) ==
    LET e == ensure_owner(self, caller)
    IN  IF e.tag = "Err" THEN [ret |-> e, self |-> self]
        ELSE IF self.config.kind = "WhiteList"
        THEN [ret |-> OkUnit,
              self |-> [self EXCEPT !.config.allowed_code_hashes = <<code_hash>>]]
        ELSE [ret |-> BadConfig, self |-> self]

\* allow_code_hash removing a hash that is already allowed instead of adding it.
allow_code_hash_toggles(self, caller, code_hash) ==
    LET e == ensure_owner(self, caller)
    IN  IF e.tag = "Err" THEN [ret |-> e, self |-> self]
        ELSE IF self.config.kind = "WhiteList"
        THEN IF code_hash \in Range(self.config.allowed_code_hashes)
             THEN [ret |-> OkUnit,
                   self |-> [self EXCEPT !.config.allowed_code_hashes =
                                SelectSeq(@, LAMBDA x : x # code_hash)]]
             ELSE [ret |-> OkUnit,
                   self |-> [self EXCEPT !.config.allowed_code_hashes = Append(@, code_hash)]]
        ELSE [ret |-> BadConfig, self |-> self]

\* allow_code_hash matching on the config before it checks the owner.
allow_code_hash_shape_first(self, caller, code_hash) ==
    LET e == ensure_owner(self, caller)
    IN  IF self.config.kind # "WhiteList" THEN [ret |-> BadConfig, self |-> self]
        ELSE IF e.tag = "Err" THEN [ret |-> e, self |-> self]
        ELSE [ret |-> OkUnit,
              self |-> [self EXCEPT !.config.allowed_code_hashes = Append(@, code_hash)]]

\* pub fn allow_code_hash(&mut self, code_hash: Hash) -> Result<()>
allow_code_hash(self, caller, code_hash) ==
    LET e == ensure_owner(self, caller)
    IN  IF e.tag = "Err" THEN [ret |-> e, self |-> self]
        ELSE IF self.config.kind = "WhiteList"
        THEN [ret |-> OkUnit,
              self |-> [self EXCEPT !.config.allowed_code_hashes = Append(@, code_hash)]]
        ELSE [ret |-> BadConfig, self |-> self]

\* ---------------------------------------------------------------- actions
\* The host serialises the calls of an instance: a call is dispatched only
\* when the instance is idle, runs to completion in one step, and its result
\* is then delivered to the caller.
NoCall == [op |-> "none"]

NoRet == [tag |-> "None"]

Idle == call = NoCall

Entry == [block_number |-> block_number, config |-> config, owner |-> owner]

\* pub fn new(config: Config) -> Self; caller is env().caller().
new(caller, cfg) == [config |-> cfg, owner |-> caller]

\* The instance as constructed by any account with any config.
Init ==
    /\ \E deployer \in AccountId, cfg \in Config :
         /\ owner = new(deployer, cfg).owner
         /\ config = new(deployer, cfg).config
    /\ block_number = 0
    /\ call = NoCall
    /\ pre = [block_number |-> 0, config |-> config, owner |-> owner]
    /\ ret = NoRet
    /\ steps = <<>>

\* A query (&self message): the stored state is not written.
Query(c, result, performed) ==
    /\ Idle
    /\ call' = c
    /\ pre' = Entry
    /\ ret' = result
    /\ steps' = performed
    /\ UNCHANGED <<owner, config, block_number>>

\* A transaction (&mut self message): the stored state becomes out.self.
Transaction(c, out) ==
    /\ Idle
    /\ call' = c
    /\ pre' = Entry
    /\ ret' = out.ret
    /\ steps' = <<Step("ensure_owner", c.caller, ensure_owner(Self, c.caller))>>
    /\ owner' = out.self.owner
    /\ config' = out.self.config
    /\ UNCHANGED block_number

Pubkey ==
    \E caller \in AccountId :
        Query([caller |-> caller, op |-> "pubkey"],
              Ok(pubkey(Self)),
              <<Step("derive_sr25519_key", "signer", key(Self)),
                Step("get_public_key", key(Self), pubkey(Self))>>)

GetConfig ==
    \E caller \in AccountId :
        Query([caller |-> caller, op |-> "get_config"],
              Ok(get_config(Self, caller)), <<>>)

RunJs ==
    \E caller \in AccountId, js_code \in JsCodes, args \in ArgLists, host \in Host :
        LET out == run_js(Self, js_code, args, block_number, host)
        IN  Query([args |-> args, caller |-> caller, js_code |-> js_code, op |-> "run_js"],
                  out.ret, out.steps)

TransferOwnership ==
    \E caller \in AccountId, new_owner \in AccountId :
        Transaction([caller |-> caller,
                     new_owner |-> new_owner,
                     op |-> "transfer_ownership"],
                    transfer_ownership(Self, caller, new_owner))

UpdateConfig ==
    \E caller \in AccountId, cfg \in Config :
        Transaction([caller |-> caller, config |-> cfg, op |-> "update_config"],
                    update_config(Self, caller, cfg))

UpdateSecret ==
    \E caller \in AccountId, secret \in Secrets :
        Transaction([caller |-> caller, op |-> "update_secret", secret |-> secret],
                    update_secret(Self, caller, secret))

\* The vector is capped at MaxAllowed elements to keep the model finite.
AllowCodeHash ==
    \E caller \in AccountId, code_hash \in Hash :
        /\ config.kind = "WhiteList" => Len(config.allowed_code_hashes) < MaxAllowed
        /\ Transaction([caller |-> caller,
                        code_hash |-> code_hash,
                        op |-> "allow_code_hash"],
                       allow_code_hash(Self, caller, code_hash))

\* The result of the call is delivered; the instance is idle again.
Return ==
    /\ ~Idle
    /\ call' = NoCall
    /\ pre' = Entry
    /\ ret' = NoRet
    /\ steps' = <<>>
    /\ UNCHANGED <<owner, config, block_number>>

\* The chain produces a block.
NextBlock ==
    /\ Idle
    /\ block_number < MaxBlock
    /\ block_number' = block_number + 1
    /\ pre' = [pre EXCEPT !.block_number = block_number + 1]
    /\ UNCHANGED <<owner, config, call, ret, steps>>

Next ==
    \/ Pubkey
    \/ GetConfig
    \/ RunJs
    \/ TransferOwnership
    \/ UpdateConfig
    \/ UpdateSecret
    \/ AllowCodeHash
    \/ Return
    \/ NextBlock

Spec == Init /\ [][Next]_vars

\* ---------------------------------------------------------------- claims
\* Observations of the call that has just completed.
Performed(name) == \E i \in 1..Len(steps) : steps[i].step = name

StepsNamed(name) == {i \in 1..Len(steps) : steps[i].step = name}

AdminOps == {"transfer_ownership", "update_config", "update_secret", "allow_code_hash"}

\* C1: under a WhiteList config, a run_js (by any caller, the owner included)
\* whose code hash is not in allowed_code_hashes returns Unauthorized, and in
\* that call js_eval is not invoked and nothing is signed.
C1_WhitelistEnforcement ==
    ( /\ call.op = "run_js"
      /\ pre.config.kind = "WhiteList"
      /\ Blake2x256(call.js_code) \notin Range(pre.config.allowed_code_hashes) )
    => /\ ret = Unauthorized
       /\ ~Performed("js_eval")
       /\ ~Performed("sign")

\* The owner runs a code that is not on a non-empty whitelist.
C1_Witness ==
    /\ call.op = "run_js"
    /\ call.caller = pre.owner
    /\ pre.config.kind = "WhiteList"
    /\ pre.config.allowed_code_hashes # <<>>
    /\ Blake2x256(call.js_code) \notin Range(pre.config.allowed_code_hashes)
    /\ ret = Unauthorized

\* C2: under a WhiteList config, get_config by a caller other than the owner
\* returns the config with an empty secret and the same allowed_code_hashes,
\* and by the owner returns the stored config; for a non-owner the result is
\* the one get_config gives whatever secret is stored.
C2_SecretRedaction ==
    (call.op = "get_config" /\ pre.config.kind = "WhiteList")
    => IF call.caller # pre.owner
       THEN /\ ret = Ok(WhiteList("", pre.config.allowed_code_hashes))
            /\ \A s \in Secrets :
                 ret = Ok(get_config([config |-> [pre.config EXCEPT !.secret = s],
                                      owner |-> pre.owner],
                                     call.caller))
       ELSE ret = Ok(pre.config)

\* A non-owner reads a whitelist config that stores a non-empty secret.
C2_Witness ==
    /\ call.op = "get_config"
    /\ call.caller # pre.owner
    /\ pre.config.kind = "WhiteList"
    /\ pre.config.secret # ""
    /\ pre.config.allowed_code_hashes # <<>>
    /\ ret.val.secret = ""

\* C3: an admin call by a caller other than the owner returns Unauthorized and
\* leaves owner and config as they were, so get_config by the owner returns
\* the prior policy.
C3_AdminAtomicity ==
    (call.op \in AdminOps /\ call.caller # pre.owner)
    => /\ ret = Unauthorized
       /\ owner = pre.owner
       /\ config = pre.config
       /\ get_config(Self, owner) = pre.config

\* A non-owner tried to replace the config by a different one.
C3_Witness ==
    /\ call.op = "update_config"
    /\ call.caller # pre.owner
    /\ call.config # pre.config
    /\ ret = Unauthorized

\* C4: update_secret and allow_code_hash by the owner return BadConfig and
\* change nothing while the config is Public, and return Ok while it is
\* WhiteList.
C4_BadConfigGuard ==
    (call.op \in {"update_secret", "allow_code_hash"} /\ call.caller = pre.owner)
    => IF pre.config.kind = "Public"
       THEN ret = BadConfig /\ owner = pre.owner /\ config = pre.config
       ELSE pre.config.kind = "WhiteList" /\ ret = OkUnit

\* The owner called update_secret on a Public config.
C4_Witness ==
    /\ call.op = "update_secret"
    /\ call.caller = pre.owner
    /\ pre.config = Public
    /\ ret = BadConfig

\* The value of the field called name in a serialised payload.
Field(payload_str, name) ==
    payload_str[CHOOSE i \in 1..Len(payload_str) : payload_str[i][1] = name][2]

\* The step called name of the completed call (the first, if several).
TheStep(name) == steps[CHOOSE i \in StepsNamed(name) : \A j \in StepsNamed(name) : i <= j]

\* The whitelist check of the completed run_js passed.
CheckPassed == Performed("ensure_code_allowed") /\ TheStep("ensure_code_allowed").out = OkUnit

\* The host supplied the JsRuntime driver and the contract's own code hash.
HostMetadataObtained ==
    /\ Performed("get_driver") /\ TheStep("get_driver").out.some
    /\ Performed("own_code_hash") /\ TheStep("own_code_hash").out.tag = "Ok"

\* A run_js under a whitelist that holds the hash of the submitted code.
RunOfAllowedCode ==
    /\ call.op = "run_js"
    /\ pre.config.kind = "WhiteList"
    /\ Blake2x256(call.js_code) \in Range(pre.config.allowed_code_hashes)

\* What C5 says apart from the outcome of a run of an allowed code: with an
\* empty whitelist every run_js is Unauthorized; after allow_code_hash(h) by
\* the owner the check accepts every code hashing to h; a run of an allowed
\* code passes the check and js_eval gets the stored secret as last argument.
C5_AllowThenRunSteps ==
    /\ ( /\ call.op = "run_js"
         /\ pre.config.kind = "WhiteList"
         /\ pre.config.allowed_code_hashes = <<>> )
       => ret = Unauthorized /\ ~Performed("js_eval")
    /\ ( /\ call.op = "allow_code_hash"
         /\ call.caller = pre.owner
         /\ pre.config.kind = "WhiteList" )
       => /\ ret = OkUnit
          /\ \A code \in JsCodes :
               Blake2x256(code) = call.code_hash
               => ensure_code_allowed(Self, Blake2x256(code)) = OkUnit
    /\ RunOfAllowedCode
       => /\ CheckPassed
          /\ Performed("js_eval")
          /\ LET a == TheStep("js_eval").in.args
             IN  a[Len(a)] = pre.config.secret /\ SubSeq(a, 1, Len(a) - 1) = call.args

\* C5 as stated: ... and the run of an allowed code succeeds whenever the
\* interpreter returns a string.
C5_Original ==
    /\ C5_AllowThenRunSteps
    /\ (RunOfAllowedCode /\ Performed("js_eval") /\ TheStep("js_eval").out.tag = "String")
       => ret.tag = "Ok"

\* C5 (amended): with an empty whitelist every run_js is Unauthorized; once
\* the owner has allowed the hash of a code, a run_js of that code passes the
\* whitelist check and js_eval gets the stored secret as its last argument;
\* when js_eval returns a string the call succeeds if the host supplies the
\* JsRuntime driver and the contract's own code hash, and panics otherwise.
C5_AllowThenRun ==
    /\ C5_AllowThenRunSteps
    /\ (RunOfAllowedCode /\ Performed("js_eval") /\ TheStep("js_eval").out.tag = "String")
       => IF HostMetadataObtained THEN ret.tag = "Ok" ELSE ret.tag = "Panic"

\* A non-owner ran an allowed code under a whitelist with a non-empty secret,
\* and the call succeeded.
C5_Witness ==
    /\ RunOfAllowedCode
    /\ call.caller # pre.owner
    /\ pre.config.secret # ""
    /\ TheStep("js_eval").in.args = Append(call.args, pre.config.secret)
    /\ ret.tag = "Ok"

\* C6: run_js signs and returns a ProvenOutput only in a call in which the
\* whitelist check passed, js_eval was invoked and returned a string, and the
\* driver and the own code hash were obtained; when js_eval returns a value
\* that is not a string the call returns JsError and nothing is signed.  No
\* other message signs.
C6_NoAttestationForFailedCall ==
    /\ call.op = "run_js"
       => /\ (ret.tag = "Ok" \/ Performed("sign"))
             => /\ ret.tag = "Ok" /\ Performed("sign")
                /\ CheckPassed
                /\ Performed("js_eval") /\ TheStep("js_eval").out.tag = "String"
                /\ HostMetadataObtained
          /\ \A i \in StepsNamed("js_eval") :
               steps[i].out.tag # "String"
               => /\ ret.tag = "Err" /\ ret.err = "JsError"
                  /\ ret.detail[2] = steps[i].out
                  /\ ~Performed("sign")
    /\ call.op # "run_js" => ~Performed("sign")

\* js_eval returned a fault value and the call ended with JsError.
C6_Witness ==
    /\ call.op = "run_js"
    /\ Performed("js_eval")
    /\ TheStep("js_eval").out.tag = "Exception"
    /\ ret.tag = "Err" /\ ret.err = "JsError"
    /\ ~Performed("sign")

\* C7: in a successful run_js the payload's output is the string js_eval
\* returned, js_code_hash is the hash of the submitted code (the hash the
\* whitelist check was given), js_engine_code_hash is the JsRuntime driver,
\* contract_code_hash and contract_address are the instance's own, and
\* block_number is the block number at the time of the call.
C7_PayloadBinding ==
    (call.op = "run_js" /\ ret.tag = "Ok")
    => LET p == ret.val.payload
       IN  /\ Field(p, "output") = TheStep("js_eval").out.val
           /\ TheStep("js_eval").in.codes[2].Source = call.js_code
           /\ Field(p, "js_code_hash") = Hexed(Blake2x256(call.js_code))
           /\ TheStep("ensure_code_allowed").in = Blake2x256(call.js_code)
           /\ Field(p, "js_engine_code_hash") = Hexed(TheStep("get_driver").out.val)
           /\ Field(p, "contract_code_hash") = Hexed(TheStep("own_code_hash").out.val)
           /\ Field(p, "contract_code_hash") = Hexed(ContractCodeHash)
           /\ Field(p, "contract_address") = Hexed(ContractAddress)
           /\ Field(p, "block_number") = pre.block_number

\* A run_js succeeded in a block after the first.
C7_Witness ==
    /\ call.op = "run_js"
    /\ ret.tag = "Ok"
    /\ pre.block_number > 0
    /\ Field(ret.val.payload, "block_number") = block_number
    /\ Field(ret.val.payload, "output") = "o2"

\* The key every call of the instance derives.
SigningKey == derive_sr25519_key("signer")

\* C8: every key derivation uses the salt "signer" and yields the same key,
\* whatever the owner, the config and the caller; pubkey() returns the public
\* key of that key; in a successful run_js the signature is made with that
\* key over exactly the returned payload, the returned pubkey is what
\* pubkey() returns, and the signature verifies.  The stored state is an
\* account and a config, nothing else.
C8_KeyConsistency ==
    /\ owner \in AccountId /\ config \in Config
    /\ \A i \in StepsNamed("derive_sr25519_key") :
         steps[i].in = "signer" /\ steps[i].out = SigningKey
    /\ call.op = "pubkey" => ret = Ok(get_public_key(SigningKey))
    /\ (call.op = "run_js" /\ ret.tag = "Ok")
       => /\ TheStep("sign").in.key = SigningKey
          /\ TheStep("sign").in.message = ret.val.payload
          /\ TheStep("sign").out = ret.val.signature
          /\ ret.val.pubkey = get_public_key(SigningKey)
          /\ Verify(ret.val.pubkey, ret.val.payload, ret.val.signature)

\* A run_js succeeded under the Public config.
C8_Witness ==
    /\ call.op = "run_js"
    /\ ret.tag = "Ok"
    /\ pre.config = Public
    /\ Verify(ret.val.pubkey, ret.val.payload, ret.val.signature)

ConfigOps == {"allow_code_hash", "update_config", "update_secret"}

QueryOps == {"get_config", "pubkey", "run_js"}

\* C9: owner changes only in a successful transfer_ownership called by the
\* owner of that moment; config changes only in a successful update_config,
\* update_secret or allow_code_hash called by the owner of that moment;
\* run_js, get_config and pubkey change neither.
C9_OnlyOwnerMutates ==
    [][ /\ owner' # owner
           => call'.op = "transfer_ownership" /\ call'.caller = owner /\ ret' = OkUnit
        /\ config' # config
           => call'.op \in ConfigOps /\ call'.caller = owner /\ ret' = OkUnit
        /\ call'.op \in QueryOps => owner' = owner /\ config' = config ]_vars

\* The owner handed the contract to another account.
C9_Witness ==
    /\ call.op = "transfer_ownership"
    /\ call.caller = pre.owner
    /\ owner # pre.owner
    /\ owner = call.new_owner

\* C10: in every run_js the whitelist check is made once, on the hash of the
\* submitted code, before js_eval; js_eval is invoked at most once, and only
\* after a check that passed; signing comes after js_eval.
C10_CheckBeforeExecute ==
    call.op = "run_js"
    => /\ Cardinality(StepsNamed("ensure_code_allowed")) = 1
       /\ TheStep("ensure_code_allowed").in = Blake2x256(call.js_code)
       /\ Cardinality(StepsNamed("js_eval")) <= 1
       /\ \A i \in StepsNamed("js_eval") :
            /\ steps[i].in.codes[2].Source = call.js_code
            /\ \E j \in StepsNamed("ensure_code_allowed") : j < i /\ steps[j].out = OkUnit
       /\ \A i \in StepsNamed("sign") : \E j \in StepsNamed("js_eval") : j < i
       /\ TheStep("ensure_code_allowed").out = Unauthorized => ~Performed("js_eval")

\* The owner ran an allowed code under a whitelist: checked, evaluated, signed.
C10_Witness ==
    /\ RunOfAllowedCode
    /\ call.caller = pre.owner
    /\ Performed("js_eval")
    /\ Performed("sign")
    /\ Len(steps) = 8

\* The hashes a config allows explicitly (none under Public).
AllowedSet(cfg) ==
    IF cfg.kind = "WhiteList" THEN Range(cfg.allowed_code_hashes) ELSE {}

\* C11: a run_js passes the access check iff the config is Public or the hash
\* of the code is in allowed_code_hashes; a call that does not pass returns
\* Unauthorized; the decision is the same for every caller and every owner,
\* so under Public no run_js returns Unauthorized and under WhiteList the
\* owner is refused like anyone else.
C11_PermissionRule ==
    call.op = "run_js"
    => LET h == Blake2x256(call.js_code)
           permitted == pre.config.kind = "Public" \/ h \in AllowedSet(pre.config)
       IN  /\ Cardinality(StepsNamed("ensure_code_allowed")) = 1
           /\ CheckPassed <=> permitted
           /\ ~permitted => ret = Unauthorized
           /\ pre.config.kind = "Public" => ret # Unauthorized
           /\ \A o \in AccountId :
                TheStep("ensure_code_allowed").out
                    = ensure_code_allowed([config |-> pre.config, owner |-> o], h)

\* Under Public a caller other than the owner passed the access check.
C11_Witness ==
    /\ call.op = "run_js"
    /\ call.caller # pre.owner
    /\ pre.config = Public
    /\ CheckPassed
    /\ ret # Unauthorized

Redacted(cfg) ==
    IF cfg.kind = "WhiteList" THEN WhiteList("", cfg.allowed_code_hashes) ELSE cfg

\* Account a is refused in the stored state self: every admin call, whatever
\* its argument, returns Unauthorized, and get_config shows the redacted
\* config.
Refused(self, a) ==
    /\ \A n \in AccountId : transfer_ownership(self, a, n).ret = Unauthorized
    /\ \A c \in Config : update_config(self, a, c).ret = Unauthorized
    /\ \A s \in Secrets : update_secret(self, a, s).ret = Unauthorized
    /\ \A h \in Hash : allow_code_hash(self, a, h).ret = Unauthorized
    /\ get_config(self, a) = Redacted(self.config)

\* Account a is authorized in the stored state self: no admin call returns
\* Unauthorized, and get_config shows the stored config.
Authorized(self, a) ==
    /\ \A n \in AccountId : transfer_ownership(self, a, n).ret # Unauthorized
    /\ \A c \in Config : update_config(self, a, c).ret # Unauthorized
    /\ \A s \in Secrets : update_secret(self, a, s).ret # Unauthorized
    /\ \A h \in Hash : allow_code_hash(self, a, h).ret # Unauthorized
    /\ get_config(self, a) = self.config

\* A successful transfer_ownership is the call of this step.
Transferred == call = NoCall /\ call'.op = "transfer_ownership" /\ ret' = OkUnit

\* C13: a successful transfer_ownership(new_owner) with new_owner other than
\* the owner makes new_owner the owner; from then on the previous owner is
\* refused (admin calls return Unauthorized, get_config is redacted) and
\* new_owner is authorized (admin calls are not Unauthorized, get_config is
\* intact); an account that is refused stays refused, and one that is
\* authorized stays authorized, over every step that is not a successful
\* transfer; an admin call that is not answered Unauthorized, and a
\* get_config that is not answered with the redacted config, comes from an
\* account that is not refused.
C13_OwnershipHandOver ==
    [][ LET post == [config |-> config', owner |-> owner']
        IN  /\ (Transferred /\ call'.new_owner # owner)
               => /\ owner' = call'.new_owner
                  /\ Refused(post, owner)
                  /\ Authorized(post, call'.new_owner)
            /\ (~Transferred /\ post # Self)
               => \A a \in AccountId :
                    /\ Refused(Self, a) => Refused(post, a)
                    /\ Authorized(Self, a) => Authorized(post, a)
            /\ (call = NoCall /\ call'.op \in AdminOps /\ ret' # Unauthorized)
               => ~Refused(Self, call'.caller)
            /\ (call = NoCall /\ call'.op = "get_config" /\ ret' # Ok(Redacted(config)))
               => ~Refused(Self, call'.caller) ]_vars

\* The owner handed a whitelist with a non-empty secret to another account:
\* the previous owner is refused and no longer sees the secret, the new
\* owner is authorized and sees it.
C13_Witness ==
    /\ call.op = "transfer_ownership"
    /\ ret = OkUnit
    /\ call.new_owner # pre.owner
    /\ config.kind = "WhiteList" /\ config.secret # ""
    /\ Refused(Self, pre.owner)
    /\ get_config(Self, pre.owner).secret = ""
    /\ Authorized(Self, call.new_owner)
    /\ get_config(Self, call.new_owner).secret = config.secret

\* C14: every admin operation checks the owner before it looks at the shape
\* of the config: a caller other than the owner gets Unauthorized whatever
\* the config, so update_secret and allow_code_hash by a non-owner under
\* Public return Unauthorized, and BadConfig is returned to the owner only.
C14_AuthorizationFirst ==
    call.op \in AdminOps
    => /\ steps # <<>> /\ steps[1].step = "ensure_owner" /\ steps[1].in = call.caller
       /\ call.caller # pre.owner => steps[1].out = Unauthorized /\ ret = Unauthorized
       /\ ( /\ call.op \in {"update_secret", "allow_code_hash"}
            /\ call.caller # pre.owner
            /\ pre.config = Public )
          => ret = Unauthorized /\ ret # BadConfig
       /\ ret = BadConfig => call.caller = pre.owner /\ steps[1].out = OkUnit

\* A caller other than the owner called allow_code_hash under Public.
C14_Witness ==
    /\ call.op = "allow_code_hash"
    /\ call.caller # pre.owner
    /\ pre.config = Public
    /\ ret = Unauthorized

\* The stored state at the entry of the completed call.
PreSelf == [config |-> pre.config, owner |-> pre.owner]

\* The owner called allow_code_hash with a hash that was already allowed.
AllowedAgain ==
    /\ call.op = "allow_code_hash"
    /\ call.caller = pre.owner
    /\ pre.config.kind = "WhiteList"
    /\ call.code_hash \in Range(pre.config.allowed_code_hashes)

\* C15 as stated: allow_code_hash(h) by the owner when h is already allowed
\* leaves the stored policy and the get_config result unchanged, so calling
\* it twice gives the same stored policy as calling it once.
C15_Original ==
    AllowedAgain
    => /\ config = pre.config
       /\ get_config(Self, owner) = get_config(PreSelf, owner)
       /\ allow_code_hash(Self, owner, call.code_hash).self = Self

\* C15 (amended): allow_code_hash(h) by the owner when h is already allowed
\* appends one more occurrence of h to the stored vector, which get_config
\* shows; the set of allowed hashes, the secret, the owner and the access
\* decision for every hash are unchanged, and calling it once more gives the
\* same set of allowed hashes again.
C15_AllowListMembers ==
    AllowedAgain
    => /\ ret = OkUnit
       /\ config.kind = "WhiteList"
       /\ config.allowed_code_hashes = Append(pre.config.allowed_code_hashes, call.code_hash)
       /\ get_config(Self, owner).allowed_code_hashes
             = Append(get_config(PreSelf, owner).allowed_code_hashes, call.code_hash)
       /\ AllowedSet(config) = AllowedSet(pre.config)
       /\ config.secret = pre.config.secret
       /\ owner = pre.owner
       /\ \A h \in Hash : ensure_code_allowed(Self, h) = ensure_code_allowed(PreSelf, h)
       /\ AllowedSet(allow_code_hash(Self, owner, call.code_hash).self.config)
             = AllowedSet(config)

\* The owner allowed a hash a second time: the vector holds it twice.
C15_Witness ==
    /\ AllowedAgain
    /\ ret = OkUnit
    /\ pre.config.allowed_code_hashes = <<call.code_hash>>
    /\ config.allowed_code_hashes = <<call.code_hash, call.code_hash>>

\* The completed call is a successful update_secret.
SecretRotated == call.op = "update_secret" /\ ret = OkUnit

\* C16: a successful update_secret changes the secret and nothing else; for
\* every code, arguments and host answers, run_js before and after the
\* rotation makes the same access decision, returns the same value (so the
\* same js_code_hash in the payload, the hash of the code), and performs the
\* same steps except that the last argument js_eval receives is the old
\* secret before and the new secret after.
C16_SecretRotation ==
    SecretRotated
    => /\ pre.config.kind = "WhiteList"
       /\ config = [pre.config EXCEPT !.secret = call.secret]
       /\ owner = pre.owner
       /\ \A code \in JsCodes, args \in ArgLists, host \in Host :
            LET before == run_js(PreSelf, code, args, pre.block_number, host)
                after == run_js(Self, code, args, block_number, host)
            IN  /\ ensure_code_allowed(Self, Blake2x256(code))
                      = ensure_code_allowed(PreSelf, Blake2x256(code))
                /\ after.ret = before.ret
                /\ after.ret.tag = "Ok"
                   => Field(after.ret.val.payload, "js_code_hash") = Hexed(Blake2x256(code))
                /\ Len(after.steps) = Len(before.steps)
                /\ \A i \in 1..Len(before.steps) :
                     IF before.steps[i].step = "js_eval"
                     THEN /\ before.steps[i].in.args = Append(args, pre.config.secret)
                          /\ after.steps[i].in.args = Append(args, call.secret)
                          /\ after.steps[i].in.codes = before.steps[i].in.codes
                          /\ after.steps[i].out = before.steps[i].out
                     ELSE after.steps[i] = before.steps[i]

\* The owner replaced the secret of a whitelist that allows some code: that
\* code runs before and after, with a different last argument.
C16_Witness ==
    /\ SecretRotated
    /\ call.secret # pre.config.secret
    /\ \E code \in JsCodes, host \in Host :
         /\ run_js(PreSelf, code, <<>>, pre.block_number, host).ret.tag = "Ok"
         /\ run_js(Self, code, <<>>, block_number, host).ret.tag = "Ok"
         /\ run_js(Self, code, <<>>, block_number, host).steps[3].in.args = <<call.secret>>

\* C17: a successful transfer_ownership changes owner to new_owner and leaves
\* config; a successful update_config makes config the given one and leaves
\* owner; a successful update_secret leaves allowed_code_hashes and owner; a
\* successful allow_code_hash(h) makes h allowed, keeps every hash that was
\* allowed, and leaves secret and owner.
C17_AdminFrame ==
    (call.op \in AdminOps /\ ret = OkUnit)
    => /\ call.op = "transfer_ownership"
          => owner = call.new_owner /\ config = pre.config
       /\ call.op = "update_config"
          => config = call.config /\ owner = pre.owner
       /\ call.op = "update_secret"
          => /\ pre.config.kind = "WhiteList" /\ config.kind = "WhiteList"
             /\ config.allowed_code_hashes = pre.config.allowed_code_hashes
             /\ config.secret = call.secret
             /\ owner = pre.owner
       /\ call.op = "allow_code_hash"
          => /\ pre.config.kind = "WhiteList" /\ config.kind = "WhiteList"
             /\ call.code_hash \in AllowedSet(config)
             /\ AllowedSet(pre.config) \subseteq AllowedSet(config)
             /\ AllowedSet(config) = AllowedSet(pre.config) \cup {call.code_hash}
             /\ config.secret = pre.config.secret
             /\ owner = pre.owner

\* The owner allowed a second hash: both are allowed and the secret is kept.
C17_Witness ==
    /\ call.op = "allow_code_hash"
    /\ ret = OkUnit
    /\ pre.config.allowed_code_hashes # <<>>
    /\ call.code_hash \notin AllowedSet(pre.config)
    /\ Cardinality(AllowedSet(config)) = 2
    /\ config.secret = "s1"

\* The host answers that agree with those the completed run_js received from
\* js_eval, get_driver and own_code_hash; the randomness of sign is free.
SameHostAnswers ==
    {host \in Host :
        /\ Performed("js_eval") => host.js_result = TheStep("js_eval").out
        /\ Performed("get_driver") => host.driver = TheStep("get_driver").out
        /\ Performed("own_code_hash") => host.own_code_hash = TheStep("own_code_hash").out}

\* The outcomes of a run_js with the code, arguments, config and block of the
\* completed one, under any owner and the same host answers.
SameRuns ==
    {run_js([config |-> pre.config, owner |-> o], call.js_code, call.args,
            pre.block_number, host).ret : o \in AccountId, host \in SameHostAnswers}

\* C18 as stated: such a run returns the identical outcome: the same error,
\* or the same payload, signature and pubkey.
C18_Original ==
    call.op = "run_js" => \A other \in SameRuns : other = ret

\* C18 (amended): such a run returns the same error or panic, or the same
\* payload and pubkey with a signature that verifies over that payload
\* under that pubkey; the signature itself need not be the same.
C18_Determinism ==
    call.op = "run_js"
    => \A other \in SameRuns :
         IF ret.tag = "Ok"
         THEN /\ other.tag = "Ok"
              /\ other.val.payload = ret.val.payload
              /\ other.val.pubkey = ret.val.pubkey
              /\ Verify(ret.val.pubkey, ret.val.payload, other.val.signature)
              /\ Verify(ret.val.pubkey, ret.val.payload, ret.val.signature)
         ELSE other = ret

\* A caller other than the owner got an attestation, and the same run under
\* another owner gives the same payload with another signature.
C18_Witness ==
    /\ call.op = "run_js"
    /\ call.caller # pre.owner
    /\ ret.tag = "Ok"
    /\ \E o \in AccountId \ {pre.owner}, host \in SameHostAnswers :
         LET other == run_js([config |-> pre.config, owner |-> o], call.js_code,
                             call.args, pre.block_number, host).ret
         IN  /\ other.val.payload = ret.val.payload
             /\ other.val.signature # ret.val.signature

\* A successful update_config is the call of this step.
ConfigReplaced == call = NoCall /\ call'.op = "update_config" /\ ret' = OkUnit

\* C19: over every step that is not a successful update_config (a
\* transfer_ownership, update_secret, allow_code_hash, run_js, get_config or
\* pubkey call, a failed call, a return, a new block) the config keeps its
\* shape, every hash in allowed_code_hashes stays in it, and every hash that
\* passes the access check before the step passes it after the step.
C19_WhitelistMonotonic ==
    [][ ~ConfigReplaced
        => LET post == [config |-> config', owner |-> owner']
           IN  /\ config'.kind = config.kind
               /\ AllowedSet(config) \subseteq AllowedSet(config')
               /\ \A h \in Hash :
                    ensure_code_allowed(Self, h) = OkUnit
                    => ensure_code_allowed(post, h) = OkUnit ]_vars

\* The owner handed over a whitelist that allows the hash of some code: the
\* code is allowed before and after.
C19_Witness ==
    /\ call.op = "transfer_ownership"
    /\ ret = OkUnit
    /\ owner # pre.owner
    /\ config.kind = "WhiteList"
    /\ \E code \in JsCodes :
         /\ Blake2x256(code) \in AllowedSet(pre.config)
         /\ ensure_code_allowed(Self, Blake2x256(code)) = OkUnit

\* C20: the constructor makes its caller the owner; in every state in which
\* a call can be dispatched, whatever the config, update_config with any
\* config and transfer_ownership to any account succeed when called by the
\* owner and take effect, so the owner can store any policy in one call;
\* after update_config to a WhiteList, update_secret and allow_code_hash by
\* the owner succeed.
C20_OwnerNotLockedOut ==
    /\ Idle
       => /\ \A d \in AccountId, cfg \in Config :
               new(d, cfg) = [config |-> cfg, owner |-> d]
          /\ \A cfg \in Config :
               update_config(Self, owner, cfg)
                  = [ret |-> OkUnit, self |-> [config |-> cfg, owner |-> owner]]
          /\ \A n \in AccountId :
               transfer_ownership(Self, owner, n)
                  = [ret |-> OkUnit, self |-> [config |-> config, owner |-> n]]
          /\ \A cfg \in Config :
               cfg.kind = "WhiteList"
               => LET w == update_config(Self, owner, cfg).self
                  IN  /\ \A s \in Secrets : update_secret(w, owner, s).ret = OkUnit
                      /\ \A h \in Hash : allow_code_hash(w, owner, h).ret = OkUnit
    /\ (call.op = "update_config" /\ call.caller = pre.owner)
       => ret = OkUnit /\ config = call.config
    /\ (call.op = "transfer_ownership" /\ call.caller = pre.owner)
       => ret = OkUnit /\ owner = call.new_owner

\* The owner switched the config from Public to a whitelist.
C20_Witness ==
    /\ call.op = "update_config"
    /\ call.caller = pre.owner
    /\ pre.config = Public
    /\ config.kind = "WhiteList"
    /\ ret = OkUnit

====
